---- MODULE Spec2Model ----
(***************************************************************************)
(* A model of the Tadata TypeScript SDK: the OpenApiSource factories, the  *)
(* transport adapter `api` built by createApiClient, and the facade        *)
(* McpResource.deploy.  One client, one deploy call in flight at a time;   *)
(* the service and the network are the environment.                        *)
(***************************************************************************)
EXTENDS Integers, Sequences, FiniteSets, TLC

VARIABLES client, source, call, peer, nCalls, nSent

vars == <<client, source, call, peer, nCalls, nSent>>

\* Number of deploy calls one behaviour makes.
MaxCalls == 2

-----------------------------------------------------------------------------
(* JavaScript values                                                       *)

\* The JS value `undefined` where a string is expected.
Undefined == "<undefined>"

\* JS truthiness of a string-or-undefined value, as `a || b` tests it.
Truthy(s) == s # Undefined /\ s # ""

\* `a || b`
OrElse(a, b) == IF Truthy(a) THEN a ELSE b

\* String.prototype.startsWith on strings kept as sequences of characters.
StartsWith(s, prefix) ==
    /\ Len(s) >= Len(prefix)
    /\ SubSeq(s, 1, Len(prefix)) = prefix

-----------------------------------------------------------------------------
(* Specification documents                                                 *)

VersionStrings ==
    { <<"3", ".", "0">>, <<"2", ".", "0">>, <<"3">> }

\* The `openapi` member: absent, a non-string (a number), or a string.
OpenapiVals ==
    { [t |-> "absent", s |-> <<>>], [t |-> "number", s |-> <<>>] }
        \cup { [t |-> "string", s |-> v] : v \in VersionStrings }

\* The `info` and `paths` members by what `in` and `typeof` see of them.
InfoVals == { "absent", "null", "object" }
PathsVals == { "absent", "string", "object", "emptyobject" }

NotAnObject == [openapi |-> [t |-> "absent", s |-> <<>>], info |-> "absent", paths |-> "absent"]

\* A candidate document: null, a primitive, or an object with some members.
Docs ==
    { [kind |-> k] @@ NotAnObject : k \in { "null", "string" } }
        \cup [kind : { "object" }, openapi : OpenapiVals, info : InfoVals,
              paths : PathsVals]

\* The object test that takes an object without members for no object.
IsObjectMember_RejectsEmpty(m) == m = "object"

\* `name in specObj`, typeof specObj[name] === 'object' and not null.
IsObjectMember(m) ==
    m \in { "object", "emptyobject", "objectWithDate", "objectWithDateString" }

-----------------------------------------------------------------------------
(* Errors                                                                  *)

NoCause == [name |-> "<none>"]

\* The body of a response that has none (response.data is undefined).
NoDeployment ==
    [present |-> FALSE, id |-> Undefined, url |-> Undefined,
     specVersion |-> Undefined, createdAt |-> Undefined]

NoData == [present |-> FALSE, updated |-> "absent", deployment |-> NoDeployment]

NoErrorObject ==
    [present |-> FALSE, code |-> Undefined, message |-> Undefined, details |-> Undefined]

NoBody ==
    [kind |-> "undefined", ok |-> "absent", data |-> NoData,
     error |-> NoErrorObject, message |-> Undefined, details |-> Undefined]

\* Any thrown JS value with a name and a message: Error, TypeError, SyntaxError.
JsError(name, message) ==
    [name |-> name, message |-> message, code |-> Undefined, statusCode |-> 0,
     body |-> NoBody, details |-> Undefined, cause |-> NoCause]

\* statusCode 0 stands for `undefined`.
TadataError(name, message, code, statusCode, cause) ==
    [JsError(name, message) EXCEPT !.code = code, !.statusCode = statusCode,
                                   !.cause = cause]

SpecInvalidError(message, details, cause) ==
    [TadataError("SpecInvalidError", message, "spec_invalid", 400, cause)
        EXCEPT !.details = details]

AuthError(message, cause) ==
    TadataError("AuthError", message, "auth_error", 401, cause)

\* ApiError whose constructor forgets the body.
ApiError_DropsBody(message, statusCode, body, cause) ==
    TadataError("ApiError", message, "api_error", statusCode, cause)

ApiError(message, statusCode, body, cause) ==
    [TadataError("ApiError", message, "api_error", statusCode, cause)
        EXCEPT !.body = body]

\* NetworkError whose constructor forgets the cause.
NetworkError_DropsCause(message, cause) ==
    TadataError("NetworkError", message, "network_error", 0, NoCause)

NetworkError(message, cause) ==
    TadataError("NetworkError", message, "network_error", 0, cause)

NoErr == JsError("<none>", Undefined)

-----------------------------------------------------------------------------
(* OpenApiSource                                                           *)

\* validateOpenApiSpec without the test of the version prefix.
validateOpenApiSpec_NoVersionCheck(spec) ==
    IF spec.kind # "object"
    THEN SpecInvalidError("Spec must be an object", "{spec}", NoCause)
    ELSE IF spec.openapi.t # "string"
    THEN SpecInvalidError("Missing or invalid \"openapi\" field", "{spec}", NoCause)
    ELSE IF ~IsObjectMember(spec.info)
    THEN SpecInvalidError("Missing or invalid \"info\" field", "{spec}", NoCause)
    ELSE IF ~IsObjectMember(spec.paths)
    THEN SpecInvalidError("Missing or invalid \"paths\" field", "{spec}", NoCause)
    ELSE NoErr

\* validateOpenApiSpec: the error it throws, or NoErr when it returns.
validateOpenApiSpec(spec) ==
    IF spec.kind # "object"
    THEN SpecInvalidError("Spec must be an object", "{spec}", NoCause)
    ELSE IF spec.openapi.t # "string"
    THEN SpecInvalidError("Missing or invalid \"openapi\" field", "{spec}", NoCause)
    ELSE IF ~StartsWith(spec.openapi.s, <<"3", ".">>)
    THEN SpecInvalidError("Only OpenAPI 3.x specifications are supported",
                          "{version}", NoCause)
    ELSE IF ~IsObjectMember(spec.info)
    THEN SpecInvalidError("Missing or invalid \"info\" field", "{spec}", NoCause)
    ELSE IF ~IsObjectMember(spec.paths)
    THEN SpecInvalidError("Missing or invalid \"paths\" field", "{spec}", NoCause)
    ELSE NoErr

NullDoc == [kind |-> "null"] @@ NotAnObject

\* What a factory call leaves behind: an OpenApiSource holding rawSpec, or
\* the error thrown (and then no OpenApiSource object exists).
SourceOk(via, input, rawSpec) ==
    [state |-> "ok", via |-> via, input |-> input, rawSpec |-> rawSpec, error |-> NoErr]

SourceFailed(via, input, error) ==
    [state |-> "failed", via |-> via, input |-> input, rawSpec |-> NullDoc, error |-> error]

NoSource ==
    [state |-> "none", via |-> "none", input |-> NullDoc, rawSpec |-> NullDoc, error |-> NoErr]

\* OpenApiSource.fromObject
fromObject(obj) ==
    LET thrown == validateOpenApiSpec(obj)
    IN  IF thrown # NoErr
        THEN SourceFailed("fromObject", obj, thrown)
        ELSE SourceOk("fromObject", obj, obj)

\* A JSON text: malformed, or the serialization of a document.
JsonTexts == { [wellFormed |-> FALSE, value |-> NullDoc] }
                 \cup [wellFormed : { TRUE }, value : Docs]

\* JSON.parse: the value, or a SyntaxError.
JsonParse(jsonStr) ==
    IF jsonStr.wellFormed
    THEN [threw |-> FALSE, value |-> jsonStr.value, error |-> NoErr]
    ELSE [threw |-> TRUE, value |-> NullDoc,
          error |-> JsError("SyntaxError", "Unexpected token")]

\* OpenApiSource.fromJson: everything thrown in the try block, the
\* SpecInvalidError of validateOpenApiSpec included, is wrapped again.
fromJson(jsonStr) ==
    LET parsed == JsonParse(jsonStr)
        thrown == IF parsed.threw THEN parsed.error
                  ELSE validateOpenApiSpec(parsed.value)
    IN  IF thrown # NoErr
        THEN SourceFailed("fromJson", parsed.value,
                 SpecInvalidError("Invalid JSON: " \o thrown.message, Undefined, thrown))
        ELSE SourceOk("fromJson", parsed.value, parsed.value)

\* A file on disk as fromFile meets it: whether fs.readFile can read it, the
\* extension of its path, and its content.
FileDocs == { d \in Docs : d.kind = "object" /\ d.info = "object" /\ d.paths = "object" }

FileTexts == { t \in JsonTexts : ~t.wellFormed \/ t.value \in FileDocs }

Files ==
    [readable : { FALSE }, ext : { ".json" },
     content : { t \in FileTexts : ~t.wellFormed }]
        \cup [readable : { TRUE }, ext : { ".json", ".txt" }, content : FileTexts]

\* What the try block of fromFile throws, or NoErr: the rejection of
\* fs.readFile, the Error for an extension other than .json, the SyntaxError
\* of JSON.parse, or the SpecInvalidError of validateOpenApiSpec.
fromFileTry(file) ==
    IF ~file.readable
    THEN JsError("Error", "ENOENT: no such file or directory")
    ELSE IF file.ext # ".json"
    THEN JsError("Error", "Unsupported file extension: " \o file.ext
                              \o ". Only JSON files are supported.")
    ELSE IF JsonParse(file.content).threw
    THEN JsonParse(file.content).error
    ELSE validateOpenApiSpec(JsonParse(file.content).value)

\* The document fromFile got out of the file, if it came that far.
fromFileParsed(file) ==
    IF file.readable /\ file.ext = ".json" THEN JsonParse(file.content).value ELSE NullDoc

\* fromFile whose catch block rethrows what it caught.
fromFile_Rethrows(file) ==
    LET thrown == fromFileTry(file)
    IN  IF thrown # NoErr
        THEN SourceFailed("fromFile", fromFileParsed(file), thrown)
        ELSE SourceOk("fromFile", fromFileParsed(file), fromFileParsed(file))

\* Documents as JavaScript values: besides the shapes of Docs, an object whose
\* `paths` holds a Date somewhere inside (say as an example value), and the
\* same object with the Date's ISO string in its place.
JsDocs ==
    Docs \cup [kind : { "object" }, openapi : OpenapiVals, info : InfoVals,
               paths : { "objectWithDate", "objectWithDateString" }]

\* What JSON.stringify makes of a member: a Date is written as the string
\* its toJSON returns, everything else kept here is written as it is.
ToJsonValue(m) == IF m = "objectWithDate" THEN "objectWithDateString" ELSE m

\* JSON.stringify that leaves `paths` out.
JsonStringify_DropsPaths(d) ==
    [wellFormed |-> TRUE, value |-> [d EXCEPT !.paths = "absent"]]

\* JSON.stringify of a document: the text that parses to its JSON form.
JsonStringify(d) ==
    [wellFormed |-> TRUE, value |-> [d EXCEPT !.paths = ToJsonValue(d.paths)]]

\* OpenApiSource.fromFile: whatever the try block throws is wrapped.
fromFile(file) ==
    LET thrown == fromFileTry(file)
    IN  IF thrown # NoErr
        THEN SourceFailed("fromFile", fromFileParsed(file),
                 SpecInvalidError("Failed to read spec file: " \o thrown.message,
                                  "{filePath}", thrown))
        ELSE SourceOk("fromFile", fromFileParsed(file), fromFileParsed(file))

\* OpenApiSource.getRawSpec
getRawSpec(src) == src.rawSpec

-----------------------------------------------------------------------------
(* Response bodies the service may send                                    *)

Ids == { "abc123", "deploy_123456" }
Urls == { Undefined, "", "/placeholder/url" }
SpecVersions == { Undefined, "2.1.0" }
Timestamps == { Undefined, "", "2025-05-01T00:00:00.000Z" }
Messages == { Undefined, "", "bad spec" }
DetailsPayloads == { Undefined, "svc-details" }
TopLevelDetails == { Undefined, "top-details" }

\* The optional members vary one at a time around "all absent", or all of
\* them are non-empty strings.
Deployments ==
    { d \in [present : { TRUE }, id : Ids, url : Urls, specVersion : SpecVersions,
             createdAt : Timestamps] :
        Cardinality({ m \in { d.url, d.specVersion, d.createdAt } : m # Undefined }) <= 1
            \/ \A m \in { d.url, d.specVersion, d.createdAt } : Truthy(m) }

DataVals ==
    { NoData, [present |-> TRUE, updated |-> "true", deployment |-> NoDeployment] }
        \cup [present : { TRUE }, updated : { "true", "false" }, deployment : Deployments]

\* "QUOTA_EXCEEDED" is a code the enum ErrorCode does not have.
ErrorObjects ==
    [present : { TRUE }, code : { "VALIDATION_ERROR" }, message : Messages,
     details : DetailsPayloads]
        \cup [present : { TRUE }, code : { "QUOTA_EXCEEDED" }, message : Messages,
              details : { Undefined }]

ObjectBody(ok, data, error, details) ==
    [kind |-> "object", ok |-> ok, data |-> data, error |-> error,
     message |-> Undefined, details |-> details]

\* No body, null, a string, `{ok: true, data?}`, `{ok: false, error?, details?}`,
\* an object without `ok`, and an envelope carrying both data and error.
Bodies ==
    { [NoBody EXCEPT !.kind = k] : k \in { "undefined", "null", "string" } }
        \cup { ObjectBody("true", d, NoErrorObject, Undefined) : d \in DataVals }
        \cup { ObjectBody("false", NoData, e, t) :
                 e \in ErrorObjects \cup { NoErrorObject }, t \in TopLevelDetails }
        \cup { ObjectBody("absent", NoData, e, t) :
                 e \in { NoErrorObject,
                         [present |-> TRUE, code |-> "VALIDATION_ERROR",
                          message |-> "bad spec", details |-> "svc-details"] },
                 t \in TopLevelDetails }
        \cup { ObjectBody("true",
                 [present |-> TRUE, updated |-> "false",
                  deployment |-> [present |-> TRUE, id |-> "abc123", url |-> Undefined,
                                  specVersion |-> Undefined, createdAt |-> Undefined]],
                 [present |-> TRUE, code |-> "VALIDATION_ERROR",
                  message |-> "bad spec", details |-> Undefined],
                 Undefined) }

\* The enum ErrorCode.
ErrorCode ==
    { "VALIDATION_ERROR", "SERVICE_VALIDATION_ERROR", "JSON_PARSE_ERROR",
      "INVALID_CONTENT_TYPE", "AUTH_ERROR", "NOT_FOUND", "INTERNAL_ERROR" }

\* UpsertDeploymentResponseDataSchema, as far as the members kept here go:
\* `updated` is a boolean and `deployment` an object with a string `id`.
UpsertDeploymentResponseDataSchema(data) ==
    /\ data.updated \in { "true", "false" }
    /\ data.deployment.present
    /\ data.deployment.id # Undefined

\* ApiErrorSchema.omit({status}): `code` is a member of ErrorCode and
\* `message` a string.
ApiErrorSchema(error) ==
    /\ error.code \in ErrorCode
    /\ error.message # Undefined

\* createApiResponseSchema(UpsertDeploymentResponseDataSchema): whether
\* parsing the body succeeds.  The object schema with its two optional
\* members, then the refinement.
createApiResponseSchema(body) ==
    /\ body.kind = "object"
    /\ body.ok \in { "true", "false" }
    /\ body.data.present => UpsertDeploymentResponseDataSchema(body.data)
    /\ body.error.present => ApiErrorSchema(body.error)
    /\ \/ body.ok = "true" /\ body.data.present
       \/ body.ok # "true" /\ body.error.present

Statuses == { 200, 201, 400, 401, 403, 404, 429, 500 }

\* What becomes of one request handed to axios: an HTTP response, no response
\* at all (connection failure, timeout), or an exception that is no AxiosError
\* raised in the inner try block (an interceptor, the Headers constructor).
Fates ==
    [type : { "response" }, status : Statuses, body : Bodies, exc : { "<none>" }]
        \cup [type : { "noResponse" }, status : { 0 }, body : { NoBody },
              exc : { "ECONNREFUSED", "ECONNABORTED" }]
        \cup [type : { "thrown" }, status : { 0 }, body : { NoBody }, exc : { "TypeError" }]

NoFate == [type |-> "none", status |-> 0, body |-> NoBody, exc |-> "<none>"]

-----------------------------------------------------------------------------
(* The client: createApiClient and the transport adapter `api`             *)

ApiKeys == { "test_api_key", "invalid_api_key" }
ApiVersions == { "05-2025", "latest" }
Names == { Undefined, "Test API" }

\* Tadata constructor: the options the client is built from.
Clients == [apiKey : ApiKeys, dev : BOOLEAN, version : ApiVersions]

BaseUrl(c) == IF c.dev THEN "https://api.stage.tadata.com" ELSE "https://api.tadata.com"

\* The `retries` option the TadataNodeSDK constructor hands to createApiClient.
\* No revision of createApiClient reads it.
RetryBound(c) == IF c.dev THEN 0 ELSE 3

NoReq ==
    [method |-> "<none>", url |-> "", query |-> [apiKey |-> Undefined],
     headers |-> [authorization |-> Undefined, xApiVersion |-> Undefined],
     body |-> [openApiSpec |-> NullDoc, name |-> Undefined, baseUrl |-> Undefined]]

\* BuildRequest that leaves the API key out of the query.
BuildRequest_NoQueryKey(c, body) ==
    [method |-> "POST",
     url |-> BaseUrl(c) \o "/api/deployments/from-openapi",
     query |-> [apiKey |-> Undefined],
     headers |-> [authorization |-> "Bearer " \o c.apiKey, xApiVersion |-> c.version],
     body |-> body]

\* The request axios is given: the contract's method and path on the base
\* URL, the base headers, and the query augmented with the API key.
BuildRequest(c, body) ==
    [method |-> "POST",
     url |-> BaseUrl(c) \o "/api/deployments/from-openapi",
     query |-> [apiKey |-> c.apiKey],
     headers |-> [authorization |-> "Bearer " \o c.apiKey, xApiVersion |-> c.version],
     body |-> body]

\* isRetryableError: StatusCodes.INTERNAL_SERVER_ERROR is 500.
isRetryableError(status) == status >= 500 /\ status < 600

\* A validateStatus that lets every status through.
ValidateStatus_AcceptsAll(status) == TRUE

\* axios' default validateStatus.
ValidateStatus(status) == status >= 200 /\ status < 300

AxiosError(fate) ==
    [name |-> "AxiosError", code |-> fate.exc, hasResponse |-> fate.type = "response",
     status |-> fate.status, data |-> fate.body]

RawException(what) == JsError("TypeError", what)

\* What one call of a function ends in: a return value or a thrown error.
Returned(status, body) == [threw |-> FALSE, status |-> status, body |-> body, error |-> NoErr]
Thrown(error) == [threw |-> TRUE, status |-> 0, body |-> NoBody, error |-> error]
NoOutcome == [threw |-> FALSE, status |-> 0, body |-> NoBody, error |-> NoErr]

\* The message lookup that finds nothing in any body.
ErrorDetailsMessage_NeverFound(data) == Undefined

\* `errorResponse?.error || {}` followed by `.message`.
ErrorDetailsMessage(data) ==
    IF data.kind = "object" /\ data.error.present THEN data.error.message ELSE Undefined

\* TranslateAxiosError with the 403 test forgotten.
TranslateAxiosError_Only401(axiosError) ==
    IF ~axiosError.hasResponse
    THEN NetworkError("Network error occurred", axiosError)
    ELSE LET status == axiosError.status
             errorResponse == axiosError.data
             errorMessage == OrElse(ErrorDetailsMessage(errorResponse),
                                    "API error: " \o ToString(status))
         IN  IF status = 401
             THEN AuthError(OrElse(errorMessage, "Authentication failed"), axiosError)
             ELSE ApiError(errorMessage, status, errorResponse, axiosError)

\* TranslateAxiosError that takes a 5xx response for a failure of the network.
TranslateAxiosError_ServerErrorAsNetwork(axiosError) ==
    IF ~axiosError.hasResponse \/ axiosError.status >= 500
    THEN NetworkError("Network error occurred", axiosError)
    ELSE LET status == axiosError.status
             errorResponse == axiosError.data
             errorMessage == OrElse(ErrorDetailsMessage(errorResponse),
                                    "API error: " \o ToString(status))
         IN  IF status = 401 \/ status = 403
             THEN AuthError(OrElse(errorMessage, "Authentication failed"), axiosError)
             ELSE ApiError(errorMessage, status, errorResponse, axiosError)

\* The inner catch block of `api`: the translation of what axios threw.
TranslateAxiosError(axiosError) ==
    IF ~axiosError.hasResponse
    THEN NetworkError("Network error occurred", axiosError)
    ELSE LET status == axiosError.status
             errorResponse == axiosError.data
             errorMessage == OrElse(ErrorDetailsMessage(errorResponse),
                                    "API error: " \o ToString(status))
         IN  IF status = 401 \/ status = 403
             THEN AuthError(OrElse(errorMessage, "Authentication failed"), axiosError)
             ELSE ApiError(errorMessage, status, errorResponse, axiosError)

\* The inner try/catch of `api`: axiosInstance.request and what follows it.
apiInner(fate) ==
    IF fate.type = "response" /\ ValidateStatus(fate.status)
    THEN Returned(fate.status, fate.body)
    ELSE IF fate.type = "thrown"
    THEN Thrown(NetworkError("Network error occurred", RawException(fate.exc)))
    ELSE Thrown(TranslateAxiosError(AxiosError(fate)))

IsDomainError(e) == e.name \in { "AuthError", "ApiError", "NetworkError" }

\* The outer catch block rethrowing whatever it caught.
apiOuterCatch_Rethrows(error) == error

\* The outer catch block of `api`: domain errors pass, anything else is wrapped.
apiOuterCatch(error) ==
    IF IsDomainError(error)
    THEN error
    ELSE NetworkError("Unexpected error: " \o error.message, error)

\* `api` when building the request raises before anything is sent.
apiBuildThrows == Thrown(apiOuterCatch(RawException("Invalid URL")))

\* `api` once the request has been handed to axios.
api(fate) ==
    LET inner == apiInner(fate)
    IN  IF inner.threw THEN Thrown(apiOuterCatch(inner.error)) ELSE inner

\* A line handed to the logger.
LogLine(level, msg) == [level |-> level, msg |-> msg]

\* The request interceptor installed when a logger is given: two debug
\* lines, and the config is returned as it came.
requestInterceptor(config) ==
    [config |-> config,
     logs |-> << LogLine("debug", "Making request to " \o config.method \o " " \o config.url),
                 LogLine("debug", "Using API version: " \o config.headers.xApiVersion) >>]

\* The response interceptors with an error handler that logs and does not
\* reject: the request then resolves with undefined, and reading
\* response.status throws a TypeError in the inner try block of `api`.
responseInterceptor_Swallows(fate) ==
    IF fate.type = "response" /\ ValidateStatus(fate.status)
    THEN [settled |-> fate,
          logs |-> << LogLine("debug", "Response received: " \o ToString(fate.status)) >>]
    ELSE [settled |-> [type |-> "thrown", status |-> 0, body |-> NoBody,
                       exc |-> "TypeError"],
          logs |-> << LogLine("error", "Response error") >>]

\* The response interceptors installed when a logger is given: what
\* axiosInstance.request settles with after them, and the lines logged.  A
\* fulfilled response is returned, a rejection is rejected again with the
\* same error.
responseInterceptor(fate) ==
    IF fate.type = "response" /\ ValidateStatus(fate.status)
    THEN [settled |-> fate,
          logs |-> << LogLine("debug", "Response received: " \o ToString(fate.status)) >>]
    ELSE [settled |-> fate,
          logs |-> << LogLine("error", "Response error") >>]

\* `api` of a client created with a logger, once the request has been handed
\* to axios: the interceptors run between axios and the adapter.
apiWithLogger(fate) == api(responseInterceptor(fate).settled)

-----------------------------------------------------------------------------
(* The facade: McpResource.deploy                                          *)

NoResult == [id |-> Undefined, specVersion |-> Undefined, url |-> Undefined,
             createdAt |-> Undefined]

\* `new Date(s)` and `new Date()`.
DateOf(s) == "Date(" \o s \o ")"
DateNow == "Date(now)"

isDeploymentResponse(body) == body.kind = "object" /\ body.ok # "absent"

\* DeploymentResult that leaves the id out.
DeploymentResult_NoId(deploymentData) ==
    [id |-> Undefined,
     specVersion |-> OrElse(deploymentData.specVersion, "1.0.0"),
     url |-> OrElse(deploymentData.url, "http://localhost:3000/mcp/" \o deploymentData.id),
     createdAt |-> IF Truthy(deploymentData.createdAt)
                   THEN DateOf(deploymentData.createdAt) ELSE DateNow]

\* DeploymentResult that never takes the server's url.
DeploymentResult_AlwaysPlaceholder(deploymentData) ==
    [id |-> deploymentData.id,
     specVersion |-> OrElse(deploymentData.specVersion, "1.0.0"),
     url |-> "http://localhost:3000/mcp/" \o deploymentData.id,
     createdAt |-> IF Truthy(deploymentData.createdAt)
                   THEN DateOf(deploymentData.createdAt) ELSE DateNow]

\* The McpDeploymentResult built from `response.body.data.deployment`.
DeploymentResult(deploymentData) ==
    [id |-> deploymentData.id,
     specVersion |-> OrElse(deploymentData.specVersion, "1.0.0"),
     url |-> OrElse(deploymentData.url, "http://localhost:3000/mcp/" \o deploymentData.id),
     createdAt |-> IF Truthy(deploymentData.createdAt)
                   THEN DateOf(deploymentData.createdAt) ELSE DateNow]

\* The `error` member of an envelope as the body an ApiError carries.
ErrorObjectAsBody(error) ==
    [NoBody EXCEPT !.kind = "object", !.message = error.message,
                   !.details = error.details]

ResultOf(result) == [resolved |-> TRUE, result |-> result, error |-> NoErr]
ErrorOf(error) == [resolved |-> FALSE, result |-> NoResult, error |-> error]

\* The try block of deploy after `await client.upsertFromOpenApi(...)` returned.
deployTry(response) ==
    IF isDeploymentResponse(response.body) /\ response.body.ok = "true"
    THEN IF ~response.body.data.present
         THEN ErrorOf(JsError("TypeError",
                  "Cannot read properties of undefined (reading 'deployment')"))
         ELSE IF ~response.body.data.deployment.present
         THEN ErrorOf(JsError("TypeError",
                  "Cannot read properties of undefined (reading 'id')"))
         ELSE ResultOf(DeploymentResult(response.body.data.deployment))
    ELSE IF isDeploymentResponse(response.body)
    THEN IF ~response.body.error.present
         THEN ErrorOf(JsError("TypeError",
                  "Cannot read properties of undefined (reading 'message')"))
         ELSE ErrorOf(ApiError(response.body.error.message, response.status,
                               ErrorObjectAsBody(response.body.error), NoCause))
    ELSE ErrorOf(JsError("Error",
             "Unexpected response status: " \o ToString(response.status)))

\* `error.body && typeof error.body === 'object' ? error.body.details : undefined`
BodyDetails(body) == IF body.kind = "object" THEN body.details ELSE Undefined

\* The catch block of deploy without the re-classification of status 400.
deployCatch_NoReclassify(error) == error

\* The catch block of deploy re-classifying every ApiError, whatever its status.
deployCatch_ReclassifiesAll(error) ==
    IF error.name = "SpecInvalidError"
    THEN error
    ELSE IF error.name = "ApiError"
    THEN SpecInvalidError(error.message, BodyDetails(error.body), error)
    ELSE error

\* The catch block of deploy: the error the caller gets.
deployCatch(error) ==
    IF error.name = "SpecInvalidError"
    THEN error
    ELSE IF error.name = "ApiError" /\ error.statusCode = 400
    THEN SpecInvalidError(error.message, BodyDetails(error.body), error)
    ELSE error

\* deploy from the point where the adapter's call ended in `out`.
deploy(out) ==
    LET tried == IF out.threw THEN ErrorOf(out.error) ELSE deployTry(out)
    IN  IF tried.resolved THEN tried ELSE ErrorOf(deployCatch(tried.error))

-----------------------------------------------------------------------------
(* The state machine                                                       *)

\* `attempts` counts the invocations of axiosInstance.request by this call.
IdleCall ==
    [pc |-> "idle", req |-> NoReq, fate |-> NoFate, apiOut |-> NoOutcome,
     result |-> NoResult, error |-> NoErr, attempts |-> 0]

\* A deploy that goes on awaiting whatever the adapter's call ended in.
Finished_KeepsAwaiting(req, fate, out) ==
    [pc |-> "sending", req |-> req, fate |-> NoFate, apiOut |-> NoOutcome,
     result |-> NoResult, error |-> NoErr, attempts |-> 0]

Finished(req, fate, out) ==
    LET end == deploy(out)
    IN  [pc |-> IF end.resolved THEN "done" ELSE "failed",
         req |-> req, fate |-> fate, apiOut |-> out,
         result |-> end.result, error |-> end.error, attempts |-> 0]

Init ==
    /\ client \in Clients
    /\ source = NoSource
    /\ call = IdleCall
    /\ peer = IdleCall
    /\ nCalls = 0
    /\ nSent = 0

\* The application builds a source from an object.
FromObject(obj) ==
    /\ call.pc = "idle"
    /\ source' = fromObject(obj)
    /\ UNCHANGED <<client, call, nCalls, nSent, peer>>

\* The application builds a source from a JSON text.
FromJson(jsonStr) ==
    /\ call.pc = "idle"
    /\ source' = fromJson(jsonStr)
    /\ UNCHANGED <<client, call, nCalls, nSent, peer>>

\* The application builds a source from a file.
FromFile(file) ==
    /\ call.pc = "idle"
    /\ source' = fromFile(file)
    /\ UNCHANGED <<client, call, nCalls, nSent, peer>>

\* deploy up to its await: the request is built and handed to axios, or
\* building it throws and the call ends without a request.
Deploy(name, buildThrows) ==
    /\ call.pc = "idle"
    /\ source.state = "ok"
    /\ nCalls < MaxCalls
    /\ nCalls' = nCalls + 1
    /\ LET req == BuildRequest(client,
                      [openApiSpec |-> getRawSpec(source), name |-> name,
                       baseUrl |-> "https://example.com/api"])
       IN  IF buildThrows
           THEN /\ call' = Finished(NoReq, NoFate, apiBuildThrows)
                /\ nSent' = nSent
           ELSE /\ call' = [IdleCall EXCEPT !.pc = "sending", !.req = req,
                                            !.attempts = 1]
                /\ nSent' = nSent + 1
    /\ UNCHANGED <<client, source, peer>>

\* The request meets its fate and deploy runs to its end.
Settle(fate) ==
    /\ call.pc = "sending"
    /\ call' = [Finished(call.req, fate, api(fate)) EXCEPT !.attempts = call.attempts]
    /\ UNCHANGED <<client, source, nCalls, nSent, peer>>

\* The caller has taken the result or the error of the call.
Return ==
    /\ call.pc \in { "done", "failed" }
    /\ call' = IdleCall
    /\ UNCHANGED <<client, source, nCalls, nSent, peer>>

Next ==
    \/ \E obj \in Docs : FromObject(obj)
    \/ \E jsonStr \in JsonTexts : FromJson(jsonStr)
    \/ \E file \in Files : FromFile(file)
    \/ \E name \in Names, buildThrows \in BOOLEAN : Deploy(name, buildThrows)
    \/ \E fate \in Fates : Settle(fate)
    \/ Return

Spec == Init /\ [][Next]_vars

-----------------------------------------------------------------------------
(* Termination of calls: the same actions over one body of each shape      *)

\* One body of each shape: no optional member, one id, one message.
LiveBodies ==
    { b \in Bodies :
        /\ b.details = Undefined
        /\ b.error.message \in { Undefined, "bad spec" }
        /\ b.error.details = Undefined
        /\ b.error.code # "QUOTA_EXCEEDED"
        /\ b.data.updated # "false"
        /\ b.data.deployment.id \in { Undefined, "abc123" }
        /\ b.data.deployment.url = Undefined
        /\ b.data.deployment.specVersion = Undefined
        /\ b.data.deployment.createdAt = Undefined }

LiveFates == { f \in Fates : f.body \in LiveBodies }

\* axiosInstance.request settles: a response arrives, the connection fails,
\* or the instance's timeout (30 s by default) aborts the request.
RequestSettles == \E fate \in LiveFates : Settle(fate)

NextLive ==
    \/ \E obj \in FileDocs : FromObject(obj)
    \/ \E name \in Names, buildThrows \in BOOLEAN : Deploy(name, buildThrows)
    \/ RequestSettles
    \/ Return

SpecLive == Init /\ [][NextLive]_vars /\ WF_vars(RequestSettles)

-----------------------------------------------------------------------------
(* Two deploy calls in flight on one client.  `call` and `peer` are the    *)
(* two invocations; the client and the source object are what they share   *)

\* The second invocation of deploy up to its await.
DeployPeer(name) ==
    /\ peer.pc = "idle"
    /\ source.state = "ok"
    /\ nCalls < MaxCalls
    /\ nCalls' = nCalls + 1
    /\ peer' = [IdleCall EXCEPT
                   !.pc = "sending",
                   !.req = BuildRequest(client,
                               [openApiSpec |-> getRawSpec(source), name |-> name,
                                baseUrl |-> "https://example.com/api"]),
                   !.attempts = 1]
    /\ nSent' = nSent + 1
    /\ UNCHANGED <<client, source, call>>

\* The request of the second invocation meets its fate.
SettlePeer_SharesOutcome(fate) ==
    /\ peer.pc = "sending"
    /\ peer' = [Finished(peer.req, fate, api(fate)) EXCEPT !.attempts = peer.attempts]
    /\ call' = IF call.pc = "sending"
               THEN [Finished(call.req, fate, api(fate)) EXCEPT !.attempts = call.attempts]
               ELSE call
    /\ UNCHANGED <<client, source, nCalls, nSent>>

SettlePeer(fate) ==
    /\ peer.pc = "sending"
    /\ peer' = [Finished(peer.req, fate, api(fate)) EXCEPT !.attempts = peer.attempts]
    /\ UNCHANGED <<client, source, call, nCalls, nSent>>

ReturnPeer ==
    /\ peer.pc \in { "done", "failed" }
    /\ peer' = IdleCall
    /\ UNCHANGED <<client, source, call, nCalls, nSent>>

\* Two valid documents, so that the source can change between the calls.
ConcurrentDocs ==
    { d \in Docs : /\ d.kind = "object"
                   /\ d.openapi = [t |-> "string", s |-> <<"3", ".", "0">>]
                   /\ d.info = "object"
                   /\ d.paths \in { "object", "emptyobject" } }

ConcurrentFates == { f \in LiveFates : f.status \in { 0, 201, 400 } }

InitConcurrent == Init /\ client.apiKey = "test_api_key" /\ client.version = "latest"

NextConcurrent ==
    \/ \E obj \in ConcurrentDocs : FromObject(obj)
    \/ \E name \in Names, buildThrows \in BOOLEAN : Deploy(name, buildThrows)
    \/ \E fate \in ConcurrentFates : Settle(fate)
    \/ Return
    \/ \E name \in Names : DeployPeer(name)
    \/ \E fate \in ConcurrentFates : SettlePeer(fate)
    \/ ReturnPeer

SpecConcurrent == InitConcurrent /\ [][NextConcurrent]_vars

-----------------------------------------------------------------------------
(* Round trips: the application holds a document as a JavaScript value and *)
(* builds a source from it, directly or through its JSON serialization     *)

\* OpenApiSource.fromObject(d) for any JavaScript document.
FromJsObject(d) ==
    /\ source' = fromObject(d)
    /\ UNCHANGED <<client, call, nCalls, nSent, peer>>

\* OpenApiSource.fromJson(JSON.stringify(d)); `input` keeps the document the
\* application started from.
FromJsonOf(d) ==
    /\ source' = [fromJson(JsonStringify(d)) EXCEPT !.input = d]
    /\ UNCHANGED <<client, call, nCalls, nSent, peer>>

NextRoundTrip ==
    \/ \E d \in JsDocs : FromJsObject(d)
    \/ \E d \in JsDocs : FromJsonOf(d)

SpecRoundTrip == Init /\ [][NextRoundTrip]_vars

-----------------------------------------------------------------------------
(* Properties                                                              *)

\* The call has ended, and its request got the HTTP response call.fate.
Responded == call.pc \in { "done", "failed" } /\ call.fate.type = "response"

\* The response body is an error envelope {ok: false, error: {...}}.
IsErrorEnvelope(body) == body.kind = "object" /\ body.ok = "false" /\ body.error.present

\* C1: a response with status 401 or 403 makes deploy reject with an AuthError,
\* whatever the response body is.
C1_AuthErrorOn401And403 ==
    (Responded /\ call.fate.status \in { 401, 403 })
        => (call.pc = "failed" /\ call.error.name = "AuthError")

C1_Witness ==
    /\ Responded
    /\ call.fate.status = 403
    /\ call.fate.body.kind = "string"
    /\ call.error.name = "AuthError"

\* C2 as stated: status 400 with an error envelope whose error.message is m
\* makes deploy reject with a SpecInvalidError whose message is m.
C2_Original ==
    (Responded /\ call.fate.status = 400 /\ IsErrorEnvelope(call.fate.body)
        /\ call.fate.body.error.message # Undefined)
        => (call.pc = "failed" /\ call.error.name = "SpecInvalidError"
            /\ call.error.message = call.fate.body.error.message)

\* C2 amended: status 400 with an error envelope whose error.message is a
\* non-empty string m makes deploy reject with a SpecInvalidError whose
\* message is m, and never with an ApiError.
C2_SpecInvalidOn400NonEmptyMessage ==
    (Responded /\ call.fate.status = 400 /\ IsErrorEnvelope(call.fate.body)
        /\ call.fate.body.error.message \notin { Undefined, "" })
        => (call.pc = "failed" /\ call.error.name = "SpecInvalidError"
            /\ call.error.message = call.fate.body.error.message)

C2_Witness ==
    /\ Responded
    /\ call.fate.status = 400
    /\ IsErrorEnvelope(call.fate.body)
    /\ call.fate.body.error.message = "bad spec"
    /\ call.error.name = "SpecInvalidError"
    /\ call.error.message = "bad spec"

\* C3: the SpecInvalidError made from a status-400 response carries the details
\* payload of the envelope, error.details of the response body.
C3_DetailsCarriedThrough ==
    (Responded /\ call.fate.status = 400 /\ IsErrorEnvelope(call.fate.body)
        /\ call.fate.body.error.details # Undefined)
        => (call.pc = "failed" /\ call.error.name = "SpecInvalidError"
            /\ call.error.details = call.fate.body.error.details)

\* C4: a non-2xx response whose status is not 400, 401 or 403 makes deploy
\* reject with an ApiError carrying that status and the raw response body.
C4_ApiErrorOnOtherStatus ==
    (Responded /\ ~(call.fate.status >= 200 /\ call.fate.status < 300)
        /\ call.fate.status \notin { 400, 401, 403 })
        => (call.pc = "failed" /\ call.error.name = "ApiError"
            /\ call.error.statusCode = call.fate.status
            /\ call.error.body = call.fate.body)

C4_Witness ==
    /\ Responded
    /\ call.fate.status = 404
    /\ IsErrorEnvelope(call.fate.body)
    /\ call.error.name = "ApiError"
    /\ call.error.statusCode = 404

\* C5: a request that gets no HTTP response makes deploy reject with a
\* NetworkError whose cause is the transport's exception.
C5_NetworkErrorOnNoResponse ==
    (call.pc \in { "done", "failed" } /\ call.fate.type = "noResponse")
        => (call.pc = "failed" /\ call.error.name = "NetworkError"
            /\ call.error.cause.name = "AxiosError"
            /\ call.error.cause.code = call.fate.exc
            /\ ~call.error.cause.hasResponse)

C5_Witness ==
    /\ call.pc = "failed"
    /\ call.fate.type = "noResponse"
    /\ call.fate.exc = "ECONNABORTED"
    /\ call.error.name = "NetworkError"

\* C6: the adapter's request function ends by returning a response or by
\* throwing an AuthError, ApiError or NetworkError; an exception that is none
\* of these, raised while building or sending the request, comes out as a
\* NetworkError whose cause is that exception.
C6_AdapterThrowsOnlyDomainErrors ==
    call.pc \in { "done", "failed" } =>
        /\ call.apiOut.threw =>
               call.apiOut.error.name \in { "AuthError", "ApiError", "NetworkError" }
        /\ call.fate.type = "thrown" =>
               /\ call.apiOut.threw
               /\ call.apiOut.error.name = "NetworkError"
               /\ call.apiOut.error.cause.name = call.fate.exc
        /\ call.fate.type = "none" =>
               /\ call.apiOut.threw
               /\ call.apiOut.error.name = "NetworkError"
               /\ call.apiOut.error.cause.name = "TypeError"
               /\ call.apiOut.error.cause.message = "Invalid URL"

C6_Witness ==
    /\ call.pc = "failed"
    /\ call.fate.type = "none"
    /\ call.apiOut.threw
    /\ call.apiOut.error.name = "NetworkError"
    /\ call.apiOut.error.cause.name = "TypeError"

\* C7: every rejection of deploy is a SpecInvalidError, an AuthError, an
\* ApiError or a NetworkError, for every status and every body shape.
C7_OnlyTypedRejections ==
    call.pc = "failed" =>
        call.error.name \in { "SpecInvalidError", "AuthError", "ApiError", "NetworkError" }

\* The body is a success envelope carrying a deployment.
IsSuccessEnvelope(body) ==
    /\ body.kind = "object"
    /\ body.ok = "true"
    /\ body.data.present
    /\ body.data.deployment.present

\* C8: on a 2xx response with ok = true whose data.deployment.id is x, deploy
\* resolves to a result whose id is x.
C8_ResultIdIsDeploymentId ==
    (Responded /\ call.fate.status >= 200 /\ call.fate.status < 300
        /\ IsSuccessEnvelope(call.fate.body))
        => (call.pc = "done" /\ call.result.id = call.fate.body.data.deployment.id)

C8_Witness ==
    /\ call.pc = "done"
    /\ call.fate.status = 201
    /\ call.fate.body.data.deployment.id = "deploy_123456"
    /\ call.result.id = "deploy_123456"

\* C9: on every successful deploy the result has an `updated` member equal to
\* the `updated` flag of the response envelope's data.
C9_UpdatedFlagRoundTrips ==
    call.pc = "done" =>
        /\ "updated" \in DOMAIN call.result
        /\ call.result["updated"] = call.fate.body.data.updated

\* A document C10 speaks of: an object missing `openapi`, `info` or `paths`,
\* or whose `openapi` string does not start with "3.".
LacksRequiredMember(d) ==
    /\ d.kind = "object"
    /\ \/ d.openapi.t = "absent"
       \/ d.info = "absent"
       \/ d.paths = "absent"
       \/ d.openapi.t = "string" /\ ~StartsWith(d.openapi.s, <<"3", ".">>)

\* C10: constructing a source from a document that misses `openapi`, `info` or
\* `paths`, or whose version does not start with "3.", fails with a
\* SpecInvalidError; the failure sends nothing, and no request ever carries
\* such a document.
C10_InvalidDocumentNeverReachesNetwork ==
    /\ [](/\ (source.state # "none" /\ LacksRequiredMember(source.input))
                => (source.state = "failed" /\ source.error.name = "SpecInvalidError")
          /\ call.req # NoReq => ~LacksRequiredMember(call.req.body.openApiSpec))
    /\ [][(source' # source /\ LacksRequiredMember(source'.input))
             => (nSent' = nSent /\ call' = call)]_vars

C10_Witness ==
    /\ source.state = "failed"
    /\ source.via = "fromObject"
    /\ source.input.openapi.t = "absent"
    /\ source.input.info = "object"
    /\ source.error.name = "SpecInvalidError"
    /\ nSent >= 1
    /\ call.pc = "idle"

\* A document C11 speaks of: `openapi` is a string starting with "3.", and
\* `info` and `paths` are objects, empty or not.
IsValidDocument(d) ==
    /\ d.kind = "object"
    /\ d.openapi.t = "string"
    /\ StartsWith(d.openapi.s, <<"3", ".">>)
    /\ d.info \in { "object", "emptyobject" }
    /\ d.paths \in { "object", "emptyobject" }

\* C11: constructing a source from a document whose `openapi` is a string
\* starting with "3." and whose `info` and `paths` are objects (paths possibly
\* empty) succeeds, and the source holds that document.
C11_ValidDocumentConstructs ==
    (source.via \in { "fromObject", "fromJson" } /\ IsValidDocument(source.input))
        => (source.state = "ok" /\ getRawSpec(source) = source.input)

C11_Witness ==
    /\ source.state = "ok"
    /\ source.via = "fromObject"
    /\ source.input.openapi.s = <<"3", ".", "0">>
    /\ source.input.info = "object"
    /\ source.input.paths = "emptyobject"

\* The attempt ended in a failure the retry policy calls retryable: a 5xx
\* status, status 429, or no response at all.
RetryableFailure(fate) ==
    \/ fate.type = "noResponse"
    \/ fate.type = "response" /\ (fate.status = 429 \/ (fate.status >= 500 /\ fate.status <= 599))

\* C12: under a retry bound of at least 1, a call whose first attempt got
\* status 500 goes on to a second attempt; it does not end in an error after
\* that one attempt.
C12_RetryAfterFirst500 ==
    (RetryBound(client) >= 1 /\ Responded /\ call.fate.status = 500
        /\ call.attempts = 1)
        => call.pc # "failed"

\* C13: under retry bound 0, a response with status 500 makes deploy reject
\* with an ApiError of status 500 after exactly one request.
C13_NoRetryUnderBoundZero ==
    (RetryBound(client) = 0 /\ Responded /\ call.fate.status = 500)
        => /\ call.pc = "failed"
           /\ call.error.name = "ApiError"
           /\ call.error.statusCode = 500
           /\ call.attempts = 1

C13_Witness ==
    /\ RetryBound(client) = 0
    /\ call.pc = "failed"
    /\ call.fate.type = "response"
    /\ call.fate.status = 500
    /\ call.error.name = "ApiError"
    /\ call.attempts = 1

\* C14: a deploy call under retry bound b sends at most b+1 requests, and
\* exactly b+1 when every attempt ended in a retryable failure.
C14_AttemptsReachBoundPlusOne ==
    /\ call.attempts <= RetryBound(client) + 1
    /\ (call.pc = "failed" /\ call.attempts >= 1 /\ RetryableFailure(call.fate))
           => call.attempts = RetryBound(client) + 1

\* The typed error of a 4xx status: SpecInvalidError for 400, AuthError for
\* 401 and 403, ApiError carrying the status for the others.
IsTypedErrorFor(status, error) ==
    IF status = 400 THEN error.name = "SpecInvalidError"
    ELSE IF status \in { 401, 403 } THEN error.name = "AuthError"
    ELSE error.name = "ApiError" /\ error.statusCode = status

\* C15: a response with a 4xx status other than 429 ends the call at once,
\* under every retry bound: one request was sent and deploy rejects with the
\* typed error of that status.
C15_ClientErrorsNeverRetried ==
    (Responded /\ call.fate.status >= 400 /\ call.fate.status <= 499
        /\ call.fate.status # 429)
        => /\ call.pc = "failed"
           /\ call.attempts = 1
           /\ IsTypedErrorFor(call.fate.status, call.error)

C15_Witness ==
    /\ RetryBound(client) = 3
    /\ call.pc = "failed"
    /\ call.fate.type = "response"
    /\ call.fate.status = 404
    /\ call.attempts = 1
    /\ call.error.name = "ApiError"
    /\ call.error.statusCode = 404

\* C16: isRetryableError calls the status of a response retryable exactly when
\* it is 429 or lies in 500..599.
C16_RetryableIs429Or5xx ==
    Responded =>
        (isRetryableError(call.fate.status)
            <=> (call.fate.status = 429
                    \/ (call.fate.status >= 500 /\ call.fate.status <= 599)))

\* The request is a POST to the deployments endpoint of the client's base URL
\* with the client's key as bearer token and as query parameter, and the
\* client's version as x-api-version.
CarriesCredentials(req) ==
    /\ req.method = "POST"
    /\ req.url \in { "https://api.stage.tadata.com/api/deployments/from-openapi",
                     "https://api.tadata.com/api/deployments/from-openapi" }
    /\ req.url = (IF client.dev THEN "https://api.stage.tadata.com"
                  ELSE "https://api.tadata.com") \o "/api/deployments/from-openapi"
    /\ client.apiKey # Undefined
    /\ req.headers.authorization = "Bearer " \o client.apiKey
    /\ req.query.apiKey = client.apiKey
    /\ req.headers.xApiVersion = client.version
    /\ req.headers.xApiVersion \in { "05-2025", "latest" }

\* C17: every request a deploy call has sent is a POST to
\* {baseUrl}/api/deployments/from-openapi carrying the API key as
\* Authorization: Bearer {key} and as query parameter apiKey={key}, and the
\* configured version as x-api-version; a request is sent only in that form.
C17_EveryRequestCarriesKeyAndVersion ==
    /\ [](call.attempts >= 1 => CarriesCredentials(call.req))
    /\ [][nSent' # nSent => (call'.attempts >= 1 /\ CarriesCredentials(call'.req))]_vars

C17_Witness ==
    /\ call.pc = "sending"
    /\ client.dev
    /\ client.apiKey = "invalid_api_key"
    /\ call.req.method = "POST"
    /\ call.req.url = "https://api.stage.tadata.com/api/deployments/from-openapi"
    /\ call.req.query.apiKey = "invalid_api_key"
    /\ call.req.headers.authorization = "Bearer invalid_api_key"
    /\ call.req.headers.xApiVersion = client.version

\* Exactly one of data and error is present, and it is the one `ok` calls for.
ExactlyOneOfDataAndError(body) ==
    /\ body.data.present <=> body.ok = "true"
    /\ body.error.present <=> body.ok = "false"

\* C18: the response-envelope schema accepts a body only if exactly one of
\* data and error is present and agrees with ok; a body with ok = true and no
\* data, with ok = false and no error, or with both data and error is rejected.
C18_EnvelopeHasExactlyOneOfDataAndError ==
    (Responded /\ createApiResponseSchema(call.fate.body))
        => ExactlyOneOfDataAndError(call.fate.body)

\* C19: when a non-2xx response is an error envelope whose error.code is no
\* member of ErrorCode, deploy still rejects with the typed error of the
\* status, and the code the error reports for the service is INTERNAL_ERROR.
C19_UnknownCodeBecomesInternalError ==
    (Responded /\ ~(call.fate.status >= 200 /\ call.fate.status < 300)
        /\ IsErrorEnvelope(call.fate.body)
        /\ call.fate.body.error.code \notin ErrorCode)
        => /\ call.pc = "failed"
           /\ IsTypedErrorFor(call.fate.status, call.error)
           /\ call.error.name = "ApiError"
                 => call.error.body.error.code = "INTERNAL_ERROR"

\* C20: whenever fromFile, fromJson or fromObject fails (a file that cannot be
\* read, an extension other than .json, malformed JSON, a document of the
\* wrong structure), what it throws is a SpecInvalidError; for fromFile and
\* fromJson the error caught is its cause.
C20_FactoriesFailWithSpecInvalidError ==
    source.state = "failed" =>
        /\ source.error.name = "SpecInvalidError"
        /\ source.via \in { "fromFile", "fromJson" }
              => source.error.cause.name \in { "Error", "SyntaxError", "SpecInvalidError" }

C20_Witness ==
    /\ source.state = "failed"
    /\ source.via = "fromFile"
    /\ source.error.name = "SpecInvalidError"
    /\ source.error.cause.name = "Error"
    /\ source.error.cause.message
           = "Unsupported file extension: .txt. Only JSON files are supported."

\* A document validateOpenApiSpec accepts, whatever its `paths` object holds.
IsValidJsDocument(d) ==
    /\ d.kind = "object"
    /\ d.openapi.t = "string"
    /\ StartsWith(d.openapi.s, <<"3", ".">>)
    /\ d.info = "object"
    /\ d.paths \in { "object", "emptyobject", "objectWithDate", "objectWithDateString" }

CaughtByFacade ==
    IF call.apiOut.threw THEN call.apiOut.error ELSE deployTry(call.apiOut).error

\* C25: the error deploy raises is the error its catch block caught, unchanged,
\* unless that is an ApiError with status 400; then it is a SpecInvalidError
\* with the same message and the ApiError as its cause.
C25_OnlyApiError400IsReclassified ==
    call.pc = "failed" =>
        IF CaughtByFacade.name = "ApiError" /\ CaughtByFacade.statusCode = 400
        THEN /\ call.error.name = "SpecInvalidError"
             /\ call.error.message = CaughtByFacade.message
             /\ call.error.cause = CaughtByFacade
        ELSE call.error = CaughtByFacade

C25_Witness ==
    /\ call.pc = "failed"
    /\ call.fate.status = 400
    /\ CaughtByFacade.name = "ApiError"
    /\ call.error.name = "SpecInvalidError"
    /\ call.error.cause.name = "ApiError"
    /\ call.error.cause.statusCode = 400

\* deploy resolved on the deployment the response carried.
ResolvedOn == call.pc = "done" /\ IsSuccessEnvelope(call.fate.body)

\* C26 as stated: on success result.url is the server's url when the
\* deployment has one and http://localhost:3000/mcp/{id} otherwise, and
\* result.createdAt is the server's timestamp when the deployment has one and
\* the current time otherwise.
C26_Original ==
    ResolvedOn =>
        LET d == call.fate.body.data.deployment
        IN  /\ call.result.url = IF d.url # Undefined THEN d.url
                                 ELSE "http://localhost:3000/mcp/" \o d.id
            /\ call.result.createdAt = IF d.createdAt # Undefined
                                       THEN "Date(" \o d.createdAt \o ")"
                                       ELSE "Date(now)"

\* C26 amended: the server's url and timestamp are taken when they are
\* non-empty strings; a missing or empty url gives the placeholder made of
\* the id, a missing or empty createdAt the current time.
C26_UrlAndCreatedAtDefaults ==
    ResolvedOn =>
        LET d == call.fate.body.data.deployment
        IN  /\ call.result.url = IF d.url \notin { Undefined, "" } THEN d.url
                                 ELSE "http://localhost:3000/mcp/" \o d.id
            /\ call.result.createdAt = IF d.createdAt \notin { Undefined, "" }
                                       THEN "Date(" \o d.createdAt \o ")"
                                       ELSE "Date(now)"

C26_Witness ==
    /\ ResolvedOn
    /\ call.fate.body.data.deployment.url = Undefined
    /\ call.fate.body.data.deployment.createdAt = "2025-05-01T00:00:00.000Z"
    /\ call.result.url = "http://localhost:3000/mcp/deploy_123456"
    /\ call.result.createdAt = "Date(2025-05-01T00:00:00.000Z)"

\* The response got a status outside 200..299.
RespondedNon2xx ==
    Responded /\ ~(call.fate.status >= 200 /\ call.fate.status < 300)

\* The body has an `error` object with a `message`.
CarriesMessage(body) ==
    body.kind = "object" /\ body.error.present /\ body.error.message # Undefined

\* C27 as stated: after a non-2xx response the message of the error raised is
\* error.message of the body when the body carries one, and otherwise
\* "API error: {status}".
C27_Original ==
    RespondedNon2xx =>
        /\ call.pc = "failed"
        /\ call.error.message = IF CarriesMessage(call.fate.body)
                                THEN call.fate.body.error.message
                                ELSE "API error: " \o ToString(call.fate.status)

\* C27 amended: the message of the error raised is error.message of the body
\* when that is a non-empty string, and otherwise (no error object, no
\* message, or the empty string) "API error: {status}".
C27_MessageOrStatusFallback ==
    RespondedNon2xx =>
        /\ call.pc = "failed"
        /\ call.error.message = IF CarriesMessage(call.fate.body)
                                       /\ call.fate.body.error.message # ""
                                THEN call.fate.body.error.message
                                ELSE "API error: " \o ToString(call.fate.status)

C27_Witness ==
    /\ RespondedNon2xx
    /\ call.fate.status = 404
    /\ call.fate.body.kind = "string"
    /\ call.error.name = "ApiError"
    /\ call.error.message = "API error: 404"

\* C28: after a 401 or 403 response whose body carries no error message the
\* AuthError raised has the message "Authentication failed".
C28_AuthErrorDefaultMessage ==
    (Responded /\ call.fate.status \in { 401, 403 } /\ ~CarriesMessage(call.fate.body))
        => /\ call.pc = "failed"
           /\ call.error.name = "AuthError"
           /\ call.error.message = "Authentication failed"

C30_ApiErrorStatusIsNon2xx ==
    (call.pc = "failed" /\ call.error.name = "ApiError")
        => /\ ~(call.error.statusCode >= 200 /\ call.error.statusCode < 300)
           /\ call.error.statusCode \notin { 401, 403 }

\* C24: every deploy call whose request was handed to axios eventually ends,
\* resolved (done) or rejected (failed), given that every request is settled
\* by a response, a transport failure or the timeout.
C24_EveryCallTerminates ==
    (call.pc = "sending") ~> (call.pc \in { "done", "failed" })

C24_Witness ==
    /\ nCalls = 2
    /\ call.pc = "failed"
    /\ call.fate.type = "noResponse"
    /\ call.fate.exc = "ECONNABORTED"
    /\ call.attempts = 1

OwnRequestAndOutcome(c) ==
    /\ c.attempts >= 1 =>
           c.req = [method |-> "POST",
                    url |-> BaseUrl(client) \o "/api/deployments/from-openapi",
                    query |-> [apiKey |-> client.apiKey],
                    headers |-> [authorization |-> "Bearer " \o client.apiKey,
                                 xApiVersion |-> client.version],
                    body |-> c.req.body]
    /\ (c.pc \in { "done", "failed" } /\ c.attempts >= 1) =>
           /\ (c.pc = "done") = deploy(api(c.fate)).resolved
           /\ c.result = deploy(api(c.fate)).result
           /\ c.error = deploy(api(c.fate)).error
           /\ c.attempts = 1

\* C23: with two deploy calls in flight on one client, each call's request is
\* made of the client and its own input, its outcome is decided by the
\* response to its own request, and no step of one call, nor a change of the
\* source object, changes the other call's request, attempts or outcome.
C23_ConcurrentCallsAreIndependent ==
    /\ [](OwnRequestAndOutcome(call) /\ OwnRequestAndOutcome(peer))
    /\ [][peer' # peer => call' = call]_vars
    /\ [][call' # call => peer' = peer]_vars
    /\ [][source' # source => (call' = call /\ peer' = peer)]_vars

C23_Witness ==
    /\ call.pc = "done"
    /\ peer.pc = "failed"
    /\ call.req.body.name # peer.req.body.name
    /\ call.req.body.openApiSpec # peer.req.body.openApiSpec
    /\ call.fate.status = 201
    /\ peer.fate.status = 400
    /\ peer.error.name = "SpecInvalidError"

====
